---- MODULE Spec2Model ----
(***************************************************************************)
(* A model of marketing_tool.py: the JSON state file and the functions     *)
(* that load, save and reset it, the command line's main() as a sequence   *)
(* of steps (load, validate, reset, add, render), and the pure functions   *)
(* generate_auto_plan, _status_color and validate_next_send.               *)
(*                                                                         *)
(* Python strings whose characters the code inspects (dates, statuses,     *)
(* creative ideas) are sequences of one-character strings; strings that    *)
(* are only stored and compared are TLA+ strings.                          *)
(***************************************************************************)
EXTENDS Integers, Sequences, FiniteSets, TLC

VARIABLES
    file,        \* the content of DATA_PATH
    today,       \* the local calendar date, as datetime.now().date() gives it
    ticks,       \* how many times the date has changed
    runs,        \* how many invocations of main() have started
    pc,          \* pc[p]: the position of invocation p in main()
    argv,        \* argv[p]: the command line of invocation p
    args,        \* args[p]: the argparse.Namespace of invocation p
    state,       \* state[p]: the local variable `state` of main()
    exitMsg,     \* exitMsg[p]: the SystemExit message, or the uncaught exception
    fileAtStart, \* fileAtStart[p]: the file when invocation p started
    lastSaved,   \* the document given to the last save_state call of the
                 \* running invocation
    nSaves,      \* nSaves[p]: save_state calls made by invocation p
    nLoads,      \* nLoads[p]: load_state calls made by invocation p
    nMuts,       \* nMuts[p]: reset_state and add_campaign calls made by main()
                 \* of invocation p
    shown,       \* shown[p]: what invocation p printed: whether the dashboard
                 \* was rendered, and the rows of its Connectors table
    call         \* the pure function under test, its argument and its result

vars == <<file, today, ticks, runs, pc, argv, args, state, exitMsg, fileAtStart,
          lastSaved, nSaves, nLoads, nMuts, shown, call>>

cliVars == <<file, today, ticks, runs, pc, argv, args, state, exitMsg, fileAtStart,
             lastSaved, nSaves, nLoads, nMuts, shown>>

(***************************************************************************)
(* Bounds of the model.                                                    *)
(***************************************************************************)
MaxRuns == 2
MaxTicks == 1
MaxFragments == 2

(***************************************************************************)
(* Python's None, for values that are TLA+ strings and for values that are *)
(* sequences of characters.                                                *)
(***************************************************************************)
None == "<None>"
NoneChars == <<"<None>">>

\* Python's truth value of an optional str (as in `not value`, `x or y`).
Truthy(s) == s # None /\ s # ""
TruthyChars(s) == s # NoneChars /\ s # <<>>

(***************************************************************************)
(* Characters.                                                             *)
(***************************************************************************)
Digits == <<"0", "1", "2", "3", "4", "5", "6", "7", "8", "9">>
IsDigit(c) == \E i \in 1..10 : Digits[i] = c
DigitVal(c) == (CHOOSE i \in 1..10 : Digits[i] = c) - 1
DigitChar(n) == Digits[n + 1]

UpperCase == <<"A", "B", "C", "D", "E", "F", "G", "H", "I", "J", "K", "L", "M",
               "N", "O", "P", "Q", "R", "S", "T", "U", "V", "W", "X", "Y", "Z">>
LowerCase == <<"a", "b", "c", "d", "e", "f", "g", "h", "i", "j", "k", "l", "m",
               "n", "o", "p", "q", "r", "s", "t", "u", "v", "w", "x", "y", "z">>

\* str.lower() on one character, and on a string.
LowerChar(c) ==
    IF \E i \in 1..26 : UpperCase[i] = c
    THEN LowerCase[CHOOSE i \in 1..26 : UpperCase[i] = c]
    ELSE c
lower(s) == [i \in 1..Len(s) |-> LowerChar(s[i])]

UpperChar(c) ==
    IF \E i \in 1..26 : LowerCase[i] = c
    THEN UpperCase[CHOOSE i \in 1..26 : LowerCase[i] = c]
    ELSE c
upper(s) == [i \in 1..Len(s) |-> UpperChar(s[i])]

\* Python's `kw in s` for strings: kw occurs in s as a substring.
Contains(s, kw) ==
    \E i \in 1..(Len(s) - Len(kw) + 1) : SubSeq(s, i, i + Len(kw) - 1) = kw

(***************************************************************************)
(* Calendar dates: datetime.date, timedelta(days=1), date.isoformat().     *)
(***************************************************************************)
IsLeap(y) == (y % 4 = 0 /\ y % 100 # 0) \/ y % 400 = 0

DaysInMonth(y, m) ==
    IF m = 2 THEN (IF IsLeap(y) THEN 29 ELSE 28)
    ELSE IF m \in {4, 6, 9, 11} THEN 30 ELSE 31

\* date + timedelta(days=1)
NextDay(d) ==
    IF d.d < DaysInMonth(d.y, d.m) THEN [d EXCEPT !.d = d.d + 1]
    ELSE IF d.m < 12 THEN [y |-> d.y, m |-> d.m + 1, d |-> 1]
    ELSE [y |-> d.y + 1, m |-> 1, d |-> 1]

\* "%04d-%02d-%02d"
isoformat(d) ==
    << DigitChar(d.y \div 1000), DigitChar((d.y \div 100) % 10),
       DigitChar((d.y \div 10) % 10), DigitChar(d.y % 10), "-",
       DigitChar(d.m \div 10), DigitChar(d.m % 10), "-",
       DigitChar(d.d \div 10), DigitChar(d.d % 10) >>

_today_iso(now) == isoformat(now)

\* The date of the first invocation.
StartDate == [y |-> 2024, m |-> 2, d |-> 28]

(***************************************************************************)
(* The state document.  A document is a function from the keys it holds to *)
(* their values (a Python dict); of each record only the name and the      *)
(* date-dependent field are kept, except for campaigns, which are whole.   *)
(***************************************************************************)
ListKeys == {"segments", "campaigns", "templates", "connectors", "backend",
             "databases", "feedback", "actions"}

\* The order in which a document's members are written to the file.
KeyOrder == <<"profile", "segments", "campaigns", "templates", "integrations",
              "connectors", "backend", "databases", "analytics", "feedback",
              "actions", "automation_rules">>

\* Values of mixed Python types (str, int, None) carry their type.
PyStr(s) == [t |-> "str", s |-> s, n |-> 0]
PyInt(n) == [t |-> "int", s |-> "", n |-> n]
PyNone == [t |-> "none", s |-> "", n |-> 0]

\* Python's truth value: None, "" and 0 are false.
PyTruthy(v) == (v.t = "str" /\ v.s # "") \/ (v.t = "int" /\ v.n # 0)

automation_rules ==
    [SMB_CTO |-> [segment |-> PyStr("Tech Leads"), cadence |-> PyStr("0-3-7"),
                  channel |-> PyStr("Email+LinkedIn")],
     Enterprise |-> [segment |-> PyStr("VP Sales"), cadence |-> PyStr("0-5-14-30"),
                     ab_tests |-> PyInt(3)],
     Demo_video |-> [variants |-> PyInt(2), length |-> PyInt(90),
                     format |-> PyStr("MP4 vertical")]]

sample_campaigns(now) ==
    << [name |-> "Onboarding Drip", segment |-> "New Leads",
        trigger |-> "Sign-up form", channel |-> "Email",
        template |-> "Welcome Series", status |-> "scheduled",
        next_send |-> isoformat(NextDay(now))],
       [name |-> "Win-back Sequence", segment |-> "Dormant Accounts",
        trigger |-> "Inactivity 30d", channel |-> "Email",
        template |-> "Re-engagement", status |-> "ready",
        next_send |-> isoformat(NextDay(now))],
       [name |-> "Post-demo Follow-up", segment |-> "Active Customers",
        trigger |-> "Demo completed", channel |-> "Email + Call task",
        template |-> "Demo Recap", status |-> "running",
        next_send |-> _today_iso(now)] >>

sample_integrations ==
    << [name |-> "CRM (HubSpot)", status |-> "connected"],
       [name |-> "Email (SendGrid)", status |-> "connected"],
       [name |-> "Social (LinkedIn)", status |-> "pending"] >>

sample_state(now) ==
    [k \in {KeyOrder[i] : i \in 1..Len(KeyOrder)} |->
        CASE k = "profile" -> [business_name |-> "Acme Components", owner |-> "You"]
          [] k = "segments" -> <<"New Leads", "Active Customers", "Dormant Accounts">>
          [] k = "campaigns" -> sample_campaigns(now)
          [] k = "templates" ->
               << [name |-> "Welcome Series", last_updated |-> _today_iso(now)],
                  [name |-> "Re-engagement", last_updated |-> _today_iso(now)],
                  [name |-> "Product Tour Deck", last_updated |-> _today_iso(now)] >>
          [] k = "integrations" -> sample_integrations
          [] k = "connectors" ->
               << [name |-> "HubSpot contacts", status |-> "connected",
                   last_sync |-> _today_iso(now)] >>
          [] k = "backend" -> <<"API Gateway", "Scheduler">>
          [] k = "databases" -> <<"Primary", "Replica">>
          [] k = "analytics" -> [conversions |-> 12]
          [] k = "feedback" ->
               << [name |-> "Onboarding check-in", last_sent |-> _today_iso(now)] >>
          [] k = "actions" ->
               << [title |-> "A/B test CTA for New Leads", due |-> _today_iso(now)],
                  [title |-> "Send nurture to Dormant Accounts",
                   due |-> isoformat(NextDay(now))],
                  [title |-> "Sync CRM deal stages", due |-> isoformat(NextDay(now))] >>
          [] k = "automation_rules" -> automation_rules]

(***************************************************************************)
(* The state file.  Its content is missing, text that is no JSON           *)
(* ("corrupt"), bytes that are no UTF-8 ("undecodable"), or the JSON text  *)
(* of a document: the sequence of its members, as json.dump writes them.   *)
(***************************************************************************)
Missing == [kind |-> "missing", text |-> <<>>]
Corrupt == [kind |-> "corrupt", text |-> <<>>]
Undecodable == [kind |-> "undecodable", text |-> <<>>]

\* The members of doc, in KeyOrder.
RECURSIVE Members(_, _)
Members(doc, i) ==
    IF i > Len(KeyOrder) THEN <<>>
    ELSE IF KeyOrder[i] \in DOMAIN doc
         THEN <<[key |-> KeyOrder[i], value |-> doc[KeyOrder[i]]]>> \o Members(doc, i + 1)
         ELSE Members(doc, i + 1)

json_dump(doc) == Members(doc, 1)

\* json.load of a JSON text: the dict of its members.
json_load(text) ==
    [k \in {text[i].key : i \in 1..Len(text)} |->
        (text[CHOOSE i \in 1..Len(text) : text[i].key = k]).value]

\* A save_state that writes the campaign list alone (a partial update).
save_state_partial(doc) ==
    [kind |-> "json",
     text |-> json_dump([k \in DOMAIN doc \cap {"campaigns"} |-> doc[k]])]

\* save_state: the file after the call (a whole-file overwrite).
save_state(doc) == [kind |-> "json", text |-> json_dump(doc)]

\* reset_state: the document returned and the file after the call.
\* A reset_state that saves the sample, and saves the document it returns
\* once more.
reset_state_resave(now) ==
    [ret |-> sample_state(now), file |-> save_state(sample_state(now)),
     raised |-> FALSE, saves |-> 2]

reset_state(now) ==
    [ret |-> sample_state(now), file |-> save_state(sample_state(now)),
     raised |-> FALSE, saves |-> 1]

\* A load_state that falls back to sample_state() instead of reset_state():
\* the sample is returned and not persisted.
load_state_unsaved(f, now) ==
    IF f.kind = "json"
    THEN [ret |-> json_load(f.text), file |-> f, raised |-> FALSE, saves |-> 0]
    ELSE IF f.kind = "undecodable"
    THEN [ret |-> << >>, file |-> f, raised |-> TRUE, saves |-> 0]
    ELSE [ret |-> sample_state(now), file |-> f, raised |-> FALSE, saves |-> 0]

\* load_state on file f: the document returned, the file after the call,
\* whether an exception left the function (UnicodeDecodeError is no
\* JSONDecodeError), and the save_state calls made.
\* A load_state that gives the document an empty list for every list-valued
\* field the file lacks.
load_state_defaulted(f, now) ==
    IF f.kind = "missing" \/ f.kind = "corrupt" THEN reset_state(now)
    ELSE IF f.kind = "json"
         THEN [ret |-> [k \in DOMAIN json_load(f.text) \cup ListKeys |->
                          IF k \in DOMAIN json_load(f.text)
                          THEN json_load(f.text)[k] ELSE << >>],
               file |-> f, raised |-> FALSE, saves |-> 0]
    ELSE [ret |-> << >>, file |-> f, raised |-> TRUE, saves |-> 0]

load_state(f, now) ==
    IF f.kind = "missing" THEN reset_state(now)
    ELSE IF f.kind = "json"
         THEN [ret |-> json_load(f.text), file |-> f, raised |-> FALSE, saves |-> 0]
    ELSE IF f.kind = "corrupt" THEN reset_state(now)
    ELSE [ret |-> << >>, file |-> f, raised |-> TRUE, saves |-> 0]

(***************************************************************************)
(* validate_next_send: datetime.strptime(next_send, "%Y-%m-%d").  strptime *)
(* matches the regular expression                                          *)
(*   (\d\d\d\d)-(1[0-2]|0[1-9]|[1-9])-(3[0-1]|[1-2]\d|0[1-9]|[1-9]| [1-9]) *)
(* at the start of the string, fails when text remains after the match,    *)
(* and then builds the date, which fails for a day the month does not      *)
(* have and for year 0.                                                    *)
(***************************************************************************)
NonZeroDigit(c) == IsDigit(c) /\ c # "0"

MonthMatch(t) ==
    \/ Len(t) = 2 /\ t[1] = "1" /\ t[2] \in {"0", "1", "2"}
    \/ Len(t) = 2 /\ t[1] = "0" /\ NonZeroDigit(t[2])
    \/ Len(t) = 1 /\ NonZeroDigit(t[1])

DayMatch(t) ==
    \/ Len(t) = 2 /\ t[1] = "3" /\ t[2] \in {"0", "1"}
    \/ Len(t) = 2 /\ t[1] \in {"1", "2"} /\ IsDigit(t[2])
    \/ Len(t) = 2 /\ t[1] = "0" /\ NonZeroDigit(t[2])
    \/ Len(t) = 1 /\ NonZeroDigit(t[1])
    \/ Len(t) = 2 /\ t[1] = " " /\ NonZeroDigit(t[2])

\* int() of a matched group: leading blanks are skipped.
RECURSIVE ToInt(_)
ToInt(t) ==
    IF t = <<>> THEN 0
    ELSE IF t[Len(t)] = " " THEN ToInt(SubSeq(t, 1, Len(t) - 1))
    ELSE 10 * ToInt(SubSeq(t, 1, Len(t) - 1)) + DigitVal(t[Len(t)])

\* The dates strptime reads from s: one, or none when it raises ValueError.
strptime(s) ==
    { [y |-> ToInt(SubSeq(s, 1, 4)),
       m |-> ToInt(SubSeq(s, 6, 5 + ml)),
       d |-> ToInt(SubSeq(s, 7 + ml, Len(s)))] :
      ml \in { n \in {1, 2} :
                 /\ Len(s) >= 7 + n
                 /\ \A i \in 1..4 : IsDigit(s[i])
                 /\ s[5] = "-"
                 /\ MonthMatch(SubSeq(s, 6, 5 + n))
                 /\ s[6 + n] = "-"
                 /\ DayMatch(SubSeq(s, 7 + n, Len(s)))
                 /\ ToInt(SubSeq(s, 1, 4)) >= 1
                 /\ ToInt(SubSeq(s, 7 + n, Len(s)))
                      <= DaysInMonth(ToInt(SubSeq(s, 1, 4)),
                                     ToInt(SubSeq(s, 6, 5 + n))) } }

\* validate_next_send: whether it returns (ok) or raises SystemExit, and the
\* value returned.
validate_next_send(next_send) ==
    IF ~TruthyChars(next_send) THEN [ok |-> TRUE, value |-> NoneChars]
    ELSE IF strptime(next_send) # {} THEN [ok |-> TRUE, value |-> next_send]
    ELSE [ok |-> FALSE, value |-> NoneChars]

(***************************************************************************)
(* The command line.                                                       *)
(***************************************************************************)
Required == <<"name", "segment", "trigger", "channel", "template">>

\* parse_args: the Namespace of a command line; --status defaults to
\* "scheduled", every other option to None (the flags to False).
parse_args(cmd) ==
    [cmd EXCEPT !.status = IF cmd.status = None THEN "scheduled" ELSE cmd.status]

\* An ensure_valid_campaign_args that reports the first missing field only.
ensure_valid_first_only(a) ==
    IF \E i \in 1..Len(Required) : ~Truthy(a[Required[i]])
    THEN <<Required[CHOOSE i \in 1..Len(Required) :
                /\ ~Truthy(a[Required[i]])
                /\ \A j \in 1..(i - 1) : Truthy(a[Required[j]])]>>
    ELSE <<>>

\* ensure_valid_campaign_args: the required fields that are missing, in the
\* order of the `required` dict; SystemExit is raised when there is one.
RECURSIVE MissingFrom(_, _)
MissingFrom(a, i) ==
    IF i > Len(Required) THEN <<>>
    ELSE IF ~Truthy(a[Required[i]]) THEN <<Required[i]>> \o MissingFrom(a, i + 1)
    ELSE MissingFrom(a, i + 1)

ensure_valid_campaign_args(a) == MissingFrom(a, 1)

\* The record add_campaign appends.
new_campaign(a, now) ==
    [name |-> a.name, segment |-> a.segment, trigger |-> a.trigger,
     channel |-> a.channel, template |-> a.template, status |-> a.status,
     next_send |-> IF TruthyChars(a.next_send) THEN a.next_send ELSE _today_iso(now)]

\* state.setdefault("campaigns", [])
campaigns_of(doc) == IF "campaigns" \in DOMAIN doc THEN doc["campaigns"] ELSE <<>>

\* An add_campaign that inserts the record at the head of the list.
add_campaign_front(a, doc, now) ==
    [k \in DOMAIN doc \cup {"campaigns"} |->
        IF k = "campaigns" THEN <<new_campaign(a, now)>> \o campaigns_of(doc)
        ELSE doc[k]]

\* An add_campaign that reads the file again and appends to what it holds
\* now, not to the document main() loaded.
add_campaign_reread(a, doc, now) ==
    [k \in DOMAIN (IF file.kind = "json" THEN json_load(file.text) ELSE doc)
              \cup {"campaigns"} |->
        IF k = "campaigns"
        THEN Append(campaigns_of(IF file.kind = "json" THEN json_load(file.text)
                                 ELSE doc),
                    new_campaign(a, now))
        ELSE (IF file.kind = "json" THEN json_load(file.text) ELSE doc)[k]]

\* add_campaign: the document after the append (save_state follows).
add_campaign(a, doc, now) ==
    [k \in DOMAIN doc \cup {"campaigns"} |->
        IF k = "campaigns" THEN Append(campaigns_of(doc), new_campaign(a, now))
        ELSE doc[k]]

(***************************************************************************)
(* _status_color: mapping.get(status.lower(), "white").                    *)
(***************************************************************************)
status_mapping ==
    << [status |-> <<"r", "u", "n", "n", "i", "n", "g">>, color |-> "green"],
       [status |-> <<"s", "c", "h", "e", "d", "u", "l", "e", "d">>, color |-> "cyan"],
       [status |-> <<"r", "e", "a", "d", "y">>, color |-> "yellow"],
       [status |-> <<"p", "a", "u", "s", "e", "d">>, color |-> "red"],
       [status |-> <<"c", "o", "n", "n", "e", "c", "t", "e", "d">>, color |-> "green"],
       [status |-> <<"h", "e", "a", "l", "t", "h", "y">>, color |-> "green"],
       [status |-> <<"d", "e", "g", "r", "a", "d", "e", "d">>, color |-> "yellow"],
       [status |-> <<"m", "a", "i", "n", "t", "e", "n", "a", "n", "c", "e">>, color |-> "magenta"],
       [status |-> <<"p", "e", "n", "d", "i", "n", "g">>, color |-> "yellow"],
       [status |-> <<"o", "f", "f", "l", "i", "n", "e">>, color |-> "red"],
       [status |-> <<"f", "a", "i", "l", "e", "d">>, color |-> "red"] >>

\* A _status_color that looks the status up as it is written (no lower()).
_status_color_exact(status) ==
    IF \E i \in 1..Len(status_mapping) : status_mapping[i].status = status
    THEN status_mapping[CHOOSE i \in 1..Len(status_mapping) :
                            status_mapping[i].status = status].color
    ELSE "white"

_status_color(status) ==
    IF \E i \in 1..Len(status_mapping) : status_mapping[i].status = lower(status)
    THEN status_mapping[CHOOSE i \in 1..Len(status_mapping) :
                            status_mapping[i].status = lower(status)].color
    ELSE "white"

(***************************************************************************)
(* generate_auto_plan.                                                     *)
(***************************************************************************)
\* rule_patterns, in the order of the dict.
rule_patterns ==
    << [rule |-> "SMB_CTO",
        keywords |-> { <<"s", "m", "b">>,
                      <<"c", "t", "o">>,
                      <<"t", "e", "c", "h", " ", "l", "e", "a", "d">>,
                      <<"t", "e", "c", "h", "n", "i", "c", "a", "l">>,
                      <<"s", "m", "a", "l", "l", " ", "b", "u", "s", "i", "n", "e", "s", "s">>,
                      <<"m", "e", "d", "i", "u", "m", " ", "b", "u", "s", "i", "n", "e", "s", "s">> }],
       [rule |-> "Enterprise",
        keywords |-> { <<"e", "n", "t", "e", "r", "p", "r", "i", "s", "e">>,
                      <<"v", "p">>,
                      <<"s", "a", "l", "e", "s">>,
                      <<"l", "a", "r", "g", "e">>,
                      <<"c", "o", "r", "p", "o", "r", "a", "t", "i", "o", "n">> }],
       [rule |-> "Demo_video",
        keywords |-> { <<"d", "e", "m", "o">>,
                      <<"v", "i", "d", "e", "o">>,
                      <<"p", "r", "e", "s", "e", "n", "t", "a", "t", "i", "o", "n">>,
                      <<"r", "e", "c", "o", "r", "d", "i", "n", "g">>,
                      <<"m", "p", "4">> }] >>

\* any(keyword in idea_lower for keyword in keywords)
AnyKeyword(idea_lower, keywords) == \E kw \in keywords : Contains(idea_lower, kw)

\* A matcher without the break: the last matching rule wins.
match_rule_last(idea_lower) ==
    IF \E i \in 1..Len(rule_patterns) : AnyKeyword(idea_lower, rule_patterns[i].keywords)
    THEN rule_patterns[CHOOSE i \in 1..Len(rule_patterns) :
            /\ AnyKeyword(idea_lower, rule_patterns[i].keywords)
            /\ \A j \in (i + 1)..Len(rule_patterns) :
                  ~AnyKeyword(idea_lower, rule_patterns[j].keywords)].rule
    ELSE None

\* The loop over rule_patterns: the first rule one of whose keywords occurs
\* in the idea, or None.
match_rule(idea_lower) ==
    IF \E i \in 1..Len(rule_patterns) : AnyKeyword(idea_lower, rule_patterns[i].keywords)
    THEN rule_patterns[CHOOSE i \in 1..Len(rule_patterns) :
            /\ AnyKeyword(idea_lower, rule_patterns[i].keywords)
            /\ \A j \in 1..(i - 1) :
                  ~AnyKeyword(idea_lower, rule_patterns[j].keywords)].rule
    ELSE None

\* One entry of auto_handled: text, the interpolated value, and what follows.
Line(text, value, suffix) == [text |-> text, value |-> value, suffix |-> suffix]

default_plan ==
    [rule_matched |-> PyStr("Default"), segment |-> PyStr("General Audience"),
     cadence |-> PyStr("0-7"), channel |-> PyStr("Email"), variants |-> PyInt(1),
     auto_handled |-> << Line("Segment selection", PyStr(""), ""),
                         Line("Basic scheduling", PyStr(""), "") >>]

\* dict.get(key, default)
Get(d, key, default) == IF key \in DOMAIN d THEN d[key] ELSE default

\* A plan whose optional numbers default to 0 and whose format to "".
build_auto_plan_zero(matched_rule, rule_config) ==
    [rule_matched |-> PyStr(matched_rule),
     segment |-> Get(rule_config, "segment", PyStr("General Audience")),
     cadence |-> Get(rule_config, "cadence", PyStr("0-7")),
     channel |-> Get(rule_config, "channel", PyStr("Email")),
     variants |-> Get(rule_config, "variants", PyInt(1)),
     ab_tests |-> Get(rule_config, "ab_tests", PyInt(0)),
     length |-> Get(rule_config, "length", PyInt(0)),
     format |-> Get(rule_config, "format", PyStr("")),
     auto_handled |-> << >>]

\* The auto_plan dict as first built, auto_handled still empty.
build_auto_plan(matched_rule, rule_config) ==
    [rule_matched |-> PyStr(matched_rule),
     segment |-> Get(rule_config, "segment", PyStr("General Audience")),
     cadence |-> Get(rule_config, "cadence", PyStr("0-7")),
     channel |-> Get(rule_config, "channel", PyStr("Email")),
     variants |-> Get(rule_config, "variants", PyInt(1)),
     ab_tests |-> Get(rule_config, "ab_tests", PyNone),
     length |-> Get(rule_config, "length", PyNone),
     format |-> Get(rule_config, "format", PyNone),
     auto_handled |-> << >>]

\* The fields auto_handled is built from, in the order of the if statements,
\* with the text around each value.
handled_fields ==
    << [key |-> "segment", text |-> "Segment: ", suffix |-> ""],
       [key |-> "cadence", text |-> "Cadence: ", suffix |-> " days"],
       [key |-> "channel", text |-> "Channel: ", suffix |-> ""],
       [key |-> "ab_tests", text |-> "A/B tests: ", suffix |-> " variants"],
       [key |-> "variants", text |-> "Creative variants: ", suffix |-> ""],
       [key |-> "length", text |-> "Video length: ", suffix |-> "s"],
       [key |-> "format", text |-> "Format: ", suffix |-> ""] >>

RECURSIVE HandledFrom(_, _)
HandledFrom(plan, i) ==
    IF i > Len(handled_fields) THEN <<>>
    ELSE IF PyTruthy(Get(plan, handled_fields[i].key, PyNone))
         THEN << Line(handled_fields[i].text, plan[handled_fields[i].key],
                      handled_fields[i].suffix) >> \o HandledFrom(plan, i + 1)
         ELSE HandledFrom(plan, i + 1)

\* An auto_handled with a line for every field, populated or not.
auto_handled_all(plan) ==
    [i \in 1..Len(handled_fields) |->
        Line(handled_fields[i].text, Get(plan, handled_fields[i].key, PyNone),
             handled_fields[i].suffix)]

\* The lines appended to auto_handled.
auto_handled(plan) == HandledFrom(plan, 1)

generate_auto_plan(creative_idea, now) ==
    LET idea_lower == lower(creative_idea)
        matched_rule == match_rule(idea_lower)
    IN IF matched_rule = None THEN default_plan
       ELSE LET rules == Get(sample_state(now), "automation_rules", << >>)
                rule_config == Get(rules, matched_rule, << >>)
                auto_plan == build_auto_plan(matched_rule, rule_config)
            IN [auto_plan EXCEPT !.auto_handled = auto_handled(auto_plan)]

(***************************************************************************)
(* The inputs of the model: the files the first invocation may find and    *)
(* the command lines.                                                      *)
(***************************************************************************)
\* build_integration_table with `connectors = state.get("connectors") or
\* state.get("integrations", [])`: an empty connectors list falls back too.
build_integration_table_or(doc) ==
    IF "connectors" \in DOMAIN doc /\ doc["connectors"] # <<>>
    THEN doc["connectors"]
    ELSE Get(doc, "integrations", <<>>)

\* build_integration_table: the rows of the Connectors table are the
\* document's connectors; an older document that has none gives its
\* integrations. (state.get gives None for an absent key.)
build_integration_table(doc) ==
    IF "connectors" \in DOMAIN doc
    THEN doc["connectors"]
    ELSE Get(doc, "integrations", <<>>)

\* The tables and the panel that show a list of the document read it with
\* state.get(key, []).
build_table(doc, key) == Get(doc, key, <<>>)

\* render_dashboard: the rows of each table; it reads the document and
\* writes nothing.
render_dashboard(doc) ==
    [dashboard |-> TRUE,
     connectors |-> build_integration_table(doc),
     rows |-> [key \in ListKeys \ {"connectors"} |-> build_table(doc, key)]]

should_render_dashboard(a) ==
    IF a.summary \/ a.snapshot
    THEN TRUE
    ELSE ~(a.add_campaign \/ a.reset_sample \/ a.creative_mode)

Procs == {"A", "B"}

\* A document saved by an older version: integrations, no connectors, no
\* campaigns.
legacy_doc ==
    [k \in {"profile", "segments", "integrations"} |->
        CASE k = "profile" -> [business_name |-> "Old Co", owner |-> "Me"]
          [] k = "segments" -> <<"Everyone">>
          [] k = "integrations" -> sample_integrations]

\* A document the user has added a campaign to.
user_doc ==
    [sample_state(StartDate) EXCEPT !["campaigns"] =
        << [name |-> "Spring Promo", segment |-> "New Leads", trigger |-> "Manual",
            channel |-> "Email", template |-> "Welcome Series",
            status |-> "paused", next_send |-> <<"2", "0", "2", "4", "-", "0", "3", "-", "0", "1">>] >>]

\* A document whose connectors have all been removed, its integrations kept.
unplugged_doc ==
    [k \in {"profile", "integrations", "connectors"} |->
        CASE k = "profile" -> [business_name |-> "Old Co", owner |-> "Me"]
          [] k = "integrations" -> sample_integrations
          [] k = "connectors" -> << >>]

\* A document with a profile and nothing else.
bare_doc ==
    [k \in {"profile"} |-> [business_name |-> "New Co", owner |-> "Me"]]

InitialFiles ==
    {Missing, Corrupt, Undecodable, save_state(legacy_doc), save_state(user_doc),
     save_state(unplugged_doc), save_state(bare_doc)}

NextSendArgs == {NoneChars, <<>>, <<"2", "0", "2", "4", "-", "0", "3", "-", "0", "1">>, <<"2", "0", "2", "4", "-", "3", "-", "1">>, <<"2", "0", "2", "4", "-", "0", "2", "-", "3", "0">>}

FieldValue ==
    [name |-> "Launch", segment |-> "Active Customers", trigger |-> "Webinar",
     channel |-> "LinkedIn", template |-> "Demo Recap"]

\* The five required options: any set of them given and the others absent
\* (None), and the same with the others empty ("") when one or all are
\* not given.
FieldArgs ==
    { [f \in {Required[i] : i \in 1..Len(Required)} |->
          IF f \in given THEN FieldValue[f] ELSE None] :
      given \in SUBSET {Required[i] : i \in 1..Len(Required)} }
    \cup
    { [f \in {Required[i] : i \in 1..Len(Required)} |->
          IF f = empty THEN "" ELSE FieldValue[f]] :
      empty \in {Required[i] : i \in 1..Len(Required)} }
    \cup
    { [f \in {Required[i] : i \in 1..Len(Required)} |-> ""] }

NoFields == [f \in {Required[i] : i \in 1..Len(Required)} |-> None]

Argv(reset, add, fields, status, next_send) ==
    [reset_sample |-> reset, add_campaign |-> add,
     name |-> fields["name"], segment |-> fields["segment"],
     trigger |-> fields["trigger"], channel |-> fields["channel"],
     template |-> fields["template"], status |-> status, next_send |-> next_send,
     summary |-> FALSE, snapshot |-> FALSE, creative_mode |-> FALSE]

\* The same command line with --summary, --snapshot, --creative-mode.
View(a, summary, snapshot, creative_mode) ==
    [a EXCEPT !.summary = summary, !.snapshot = snapshot,
              !.creative_mode = creative_mode]

ViewFlags ==
    {<<TRUE, FALSE, FALSE>>, <<FALSE, TRUE, FALSE>>, <<FALSE, FALSE, TRUE>>,
     <<TRUE, TRUE, TRUE>>}

ArgvSet ==
    { Argv(reset, FALSE, NoFields, None, ns) :
        reset \in BOOLEAN, ns \in {NoneChars, <<"2", "0", "2", "4", "-", "0", "3", "-", "0", "1">>, <<"2", "0", "2", "4", "-", "0", "2", "-", "3", "0">>} }
    \cup
    { Argv(FALSE, TRUE, f, None, NoneChars) : f \in FieldArgs }
    \cup
    { Argv(TRUE, TRUE, NoFields, None, NoneChars) }
    \cup
    { Argv(reset, TRUE, NoFields, None, <<"2", "0", "2", "4", "-", "0", "2", "-", "3", "0">>) :
        reset \in BOOLEAN }
    \cup
    { Argv(reset, TRUE, FieldValue, None, ns) :
        reset \in BOOLEAN, ns \in NextSendArgs }
    \cup
    { Argv(FALSE, TRUE, FieldValue, "paused", NoneChars) }
    \cup
    { View(Argv(reset, add, IF add THEN FieldValue ELSE NoFields, None, NoneChars),
           v[1], v[2], v[3]) :
        reset \in BOOLEAN, add \in BOOLEAN, v \in ViewFlags }

NoDoc == << >>
NoMsg == [kind |-> "", fields |-> <<>>]
NoArgs == Argv(FALSE, FALSE, NoFields, None, NoneChars)
NoShown == [dashboard |-> FALSE, connectors |-> <<>>, rows |-> << >>]
NoCall == [fn |-> "", arg |-> <<>>, done |-> FALSE, ret |-> <<>>]

(***************************************************************************)
(* main(), one action per step.                                            *)
(***************************************************************************)
InitCli ==
    /\ file \in InitialFiles
    /\ today = StartDate
    /\ ticks = 0
    /\ runs = 0
    /\ pc = [p \in Procs |-> "idle"]
    /\ argv = [p \in Procs |-> NoArgs]
    /\ args = [p \in Procs |-> NoArgs]
    /\ state = [p \in Procs |-> NoDoc]
    /\ exitMsg = [p \in Procs |-> NoMsg]
    /\ fileAtStart = [p \in Procs |-> Missing]
    /\ lastSaved = [saved |-> FALSE, doc |-> NoDoc]
    /\ nSaves = [p \in Procs |-> 0]
    /\ nLoads = [p \in Procs |-> 0]
    /\ nMuts = [p \in Procs |-> 0]
    /\ shown = [p \in Procs |-> NoShown]

Init ==
    /\ InitCli
    /\ call = NoCall

Ended(p) == pc[p] \in {"done", "exit_error", "crashed"}

\* The process starts: args = parse_args()
Start(p, cmd) ==
    /\ pc[p] = "idle"
    /\ runs < MaxRuns
    /\ runs' = runs + 1
    /\ pc' = [pc EXCEPT ![p] = "load"]
    /\ argv' = [argv EXCEPT ![p] = cmd]
    /\ args' = [args EXCEPT ![p] = parse_args(cmd)]
    /\ state' = [state EXCEPT ![p] = NoDoc]
    /\ exitMsg' = [exitMsg EXCEPT ![p] = NoMsg]
    /\ fileAtStart' = [fileAtStart EXCEPT ![p] = file]
    /\ nSaves' = [nSaves EXCEPT ![p] = 0]
    /\ nLoads' = [nLoads EXCEPT ![p] = 0]
    /\ nMuts' = [nMuts EXCEPT ![p] = 0]
    /\ shown' = [shown EXCEPT ![p] = NoShown]
    /\ UNCHANGED <<file, today, ticks, lastSaved, call>>

\* state = load_state()
Load(p) ==
    /\ pc[p] = "load"
    /\ LET r == load_state(file, today) IN
         /\ nLoads' = [nLoads EXCEPT ![p] = @ + 1]
         /\ IF r.raised
            THEN /\ pc' = [pc EXCEPT ![p] = "crashed"]
                 /\ exitMsg' = [exitMsg EXCEPT ![p] =
                                  [kind |-> "UnicodeDecodeError", fields |-> <<>>]]
                 /\ UNCHANGED <<file, state, lastSaved, nSaves>>
            ELSE /\ pc' = [pc EXCEPT ![p] = "validate"]
                 /\ state' = [state EXCEPT ![p] = r.ret]
                 /\ file' = r.file
                 /\ nSaves' = [nSaves EXCEPT ![p] = @ + r.saves]
                 /\ lastSaved' = IF r.saves > 0 THEN [saved |-> TRUE, doc |-> r.ret]
                                 ELSE lastSaved
                 /\ UNCHANGED exitMsg
    /\ UNCHANGED <<today, ticks, runs, argv, args, fileAtStart, nMuts, shown,
                   call>>

\* args.next_send = validate_next_send(args.next_send)
Validate(p) ==
    /\ pc[p] = "validate"
    /\ LET v == validate_next_send(args[p].next_send) IN
         IF v.ok
         THEN /\ args' = [args EXCEPT ![p].next_send = v.value]
              /\ pc' = [pc EXCEPT ![p] = "reset"]
              /\ UNCHANGED exitMsg
         ELSE /\ pc' = [pc EXCEPT ![p] = "exit_error"]
              /\ exitMsg' = [exitMsg EXCEPT ![p] =
                    [kind |-> "Invalid --next-send date. Use YYYY-MM-DD.",
                     fields |-> <<>>]]
              /\ UNCHANGED args
    /\ UNCHANGED <<file, today, ticks, runs, argv, state, fileAtStart, lastSaved,
                   nSaves, nLoads, nMuts, shown, call>>

\* A main() that skips the reset when a campaign is to be added:
\* if args.reset_sample and not args.add_campaign: state = reset_state()
Reset_unless_add(p) ==
    /\ pc[p] = "reset"
    /\ pc' = [pc EXCEPT ![p] = "add"]
    /\ IF args[p].reset_sample /\ ~args[p].add_campaign
       THEN LET r == reset_state(today) IN
              /\ state' = [state EXCEPT ![p] = r.ret]
              /\ file' = r.file
              /\ nSaves' = [nSaves EXCEPT ![p] = @ + r.saves]
              /\ lastSaved' = [saved |-> TRUE, doc |-> r.ret]
              /\ nMuts' = [nMuts EXCEPT ![p] = @ + 1]
       ELSE UNCHANGED <<state, file, nSaves, lastSaved, nMuts>>
    /\ UNCHANGED <<today, ticks, runs, argv, args, exitMsg, fileAtStart, nLoads,
                   shown, call>>

\* if args.reset_sample: state = reset_state()
Reset(p) ==
    /\ pc[p] = "reset"
    /\ pc' = [pc EXCEPT ![p] = "add"]
    /\ IF args[p].reset_sample
       THEN LET r == reset_state(today) IN
              /\ state' = [state EXCEPT ![p] = r.ret]
              /\ file' = r.file
              /\ nSaves' = [nSaves EXCEPT ![p] = @ + r.saves]
              /\ lastSaved' = [saved |-> TRUE, doc |-> r.ret]
              /\ nMuts' = [nMuts EXCEPT ![p] = @ + 1]
       ELSE UNCHANGED <<state, file, nSaves, lastSaved, nMuts>>
    /\ UNCHANGED <<today, ticks, runs, argv, args, exitMsg, fileAtStart, nLoads,
                   shown, call>>

\* if args.add_campaign: ensure_valid_campaign_args(args); add_campaign(args, state)
Add(p) ==
    /\ pc[p] = "add"
    /\ IF ~args[p].add_campaign
       THEN /\ pc' = [pc EXCEPT ![p] = "render"]
            /\ UNCHANGED <<state, file, nSaves, lastSaved, exitMsg, nMuts>>
       ELSE IF ensure_valid_campaign_args(args[p]) # <<>>
       THEN /\ pc' = [pc EXCEPT ![p] = "exit_error"]
            /\ exitMsg' = [exitMsg EXCEPT ![p] =
                  [kind |-> "Missing required fields for campaign: ",
                   fields |-> ensure_valid_campaign_args(args[p])]]
            /\ UNCHANGED <<state, file, nSaves, lastSaved, nMuts>>
       ELSE LET doc == add_campaign(args[p], state[p], today) IN
              /\ pc' = [pc EXCEPT ![p] = "render"]
              /\ state' = [state EXCEPT ![p] = doc]
              /\ file' = save_state(doc)
              /\ nSaves' = [nSaves EXCEPT ![p] = @ + 1]
              /\ lastSaved' = [saved |-> TRUE, doc |-> doc]
              /\ nMuts' = [nMuts EXCEPT ![p] = @ + 1]
              /\ UNCHANGED exitMsg
    /\ UNCHANGED <<today, ticks, runs, argv, args, fileAtStart, nLoads, shown,
                   call>>

\* The rest of main(): creative mode returns before the dashboard; the
\* dashboard is rendered when should_render_dashboard says so; the snapshot
\* writes the SVG file. None touches the state file or the document.
Render(p) ==
    /\ pc[p] = "render"
    /\ pc' = [pc EXCEPT ![p] = "done"]
    /\ shown' = [shown EXCEPT ![p] =
                   IF ~args[p].creative_mode /\ should_render_dashboard(args[p])
                   THEN render_dashboard(state[p])
                   ELSE NoShown]
    /\ UNCHANGED <<file, today, ticks, runs, argv, args, state, exitMsg,
                   fileAtStart, lastSaved, nSaves, nLoads, nMuts, call>>

\* The process ends (normally, by SystemExit or by an uncaught exception): its
\* memory is gone, the file stays.
Exit(p) ==
    /\ Ended(p)
    /\ pc' = [pc EXCEPT ![p] = "idle"]
    /\ argv' = [argv EXCEPT ![p] = NoArgs]
    /\ args' = [args EXCEPT ![p] = NoArgs]
    /\ state' = [state EXCEPT ![p] = NoDoc]
    /\ exitMsg' = [exitMsg EXCEPT ![p] = NoMsg]
    /\ fileAtStart' = [fileAtStart EXCEPT ![p] = Missing]
    /\ nSaves' = [nSaves EXCEPT ![p] = 0]
    /\ nLoads' = [nLoads EXCEPT ![p] = 0]
    /\ nMuts' = [nMuts EXCEPT ![p] = 0]
    /\ shown' = [shown EXCEPT ![p] = NoShown]
    /\ lastSaved' = [saved |-> FALSE, doc |-> NoDoc]
    /\ UNCHANGED <<file, today, ticks, runs, call>>

\* Midnight passes.
Tick ==
    /\ ticks < MaxTicks
    /\ ticks' = ticks + 1
    /\ today' = NextDay(today)
    /\ UNCHANGED <<file, runs, pc, argv, args, state, exitMsg, fileAtStart,
                   lastSaved, nSaves, nLoads, nMuts, shown, call>>

\* One invocation at a time (the single-writer assumption): process "A".
Next ==
    \/ \E cmd \in ArgvSet : Start("A", cmd)
    \/ Load("A")
    \/ Validate("A")
    \/ Reset("A")
    \/ Add("A")
    \/ Render("A")
    \/ Exit("A")
    \/ Tick

Spec == Init /\ [][Next]_vars

(***************************************************************************)
(* Two invocations at once on the same file, each adding its own campaign. *)
(* Nothing locks the file: the steps of the two interleave freely.         *)
(***************************************************************************)
FieldValueB ==
    [name |-> "Renewal", segment |-> "Dormant Accounts", trigger |-> "Manual",
     channel |-> "Email", template |-> "Re-engagement"]

RaceArgv(p) ==
    IF p = "A" THEN Argv(FALSE, TRUE, FieldValue, None, NoneChars)
    ELSE Argv(FALSE, TRUE, FieldValueB, None, NoneChars)

NextRace ==
    \/ \E p \in Procs : Start(p, RaceArgv(p))
    \/ \E p \in Procs : Load(p)
    \/ \E p \in Procs : Validate(p)
    \/ \E p \in Procs : Reset(p)
    \/ \E p \in Procs : Add(p)
    \/ \E p \in Procs : Render(p)
    \/ Tick

SpecRace == Init /\ [][NextRace]_vars

(***************************************************************************)
(* Properties of the state store and of main().                            *)
(***************************************************************************)
RequiredSet == {Required[i] : i \in 1..Len(Required)}

\* C1: when the state file is missing or holds unparseable JSON, load_state
\* returns sample_state() of the current date, leaves the file holding
\* exactly that document, and a second load_state right after returns the
\* same document and leaves the file as it is.
C1_LoadFallback ==
    [][ (pc["A"] = "load" /\ pc'["A"] = "validate"
         /\ file.kind \in {"missing", "corrupt"})
        => /\ state'["A"] = sample_state(today)
           /\ file'.kind = "json"
           /\ json_load(file'.text) = sample_state(today)
           /\ ~load_state(file', today').raised
           /\ load_state(file', today').ret = state'["A"]
           /\ load_state(file', today').file = file' ]_vars

C1_Witness ==
    /\ pc["A"] = "validate"
    /\ fileAtStart["A"].kind = "corrupt"
    /\ file.kind = "json"
    /\ state["A"] = sample_state(today)

\* C2: an add-campaign step whose five required fields are all non-empty
\* leaves the campaign list equal to the prior list with exactly one record
\* appended at the end; the record carries the supplied fields, status
\* "scheduled" when --status was not given, next_send equal to today's date
\* when --next-send was omitted; every other member of the document is kept;
\* and the state file then holds the whole updated document.
C2_AddAppends ==
    [][ (pc["A"] = "add" /\ pc'["A"] # "add" /\ args["A"].add_campaign
         /\ \A f \in RequiredSet : Truthy(args["A"][f]))
        => LET prior == campaigns_of(state["A"])
               after == state'["A"]["campaigns"]
               rec == after[Len(after)]
           IN /\ pc'["A"] = "render"
              /\ Len(after) = Len(prior) + 1
              /\ SubSeq(after, 1, Len(prior)) = prior
              /\ \A f \in RequiredSet : rec[f] = argv["A"][f]
              /\ argv["A"].status = None => rec.status = "scheduled"
              /\ argv["A"].status # None => rec.status = argv["A"].status
              /\ argv["A"].next_send = NoneChars => rec.next_send = isoformat(today)
              /\ TruthyChars(argv["A"].next_send)
                   => rec.next_send = argv["A"].next_send
              /\ DOMAIN state'["A"] = DOMAIN state["A"] \cup {"campaigns"}
              /\ \A k \in DOMAIN state["A"] \ {"campaigns"} :
                    state'["A"][k] = state["A"][k]
              /\ file'.kind = "json"
              /\ json_load(file'.text) = state'["A"] ]_vars

C2_Witness ==
    /\ pc["A"] = "render"
    /\ args["A"].add_campaign
    /\ argv["A"].status = None
    /\ argv["A"].next_send = NoneChars
    /\ "campaigns" \in DOMAIN state["A"]
    /\ Len(state["A"]["campaigns"]) >= 2
    /\ state["A"]["campaigns"][Len(state["A"]["campaigns"])].name = "Launch"
    /\ state["A"]["campaigns"][Len(state["A"]["campaigns"])].status = "scheduled"
    /\ file = save_state(state["A"])

\* C3: an add-campaign step in which one or more of name, segment, trigger,
\* channel, template is missing or empty fails, changes neither the document
\* in memory nor the state file, and its message names every missing field.
C3_MissingFieldsFail ==
    [][ (pc["A"] = "add" /\ pc'["A"] # "add" /\ args["A"].add_campaign
         /\ \E f \in RequiredSet : ~Truthy(args["A"][f]))
        => /\ pc'["A"] = "exit_error"
           /\ state'["A"] = state["A"]
           /\ file' = file
           /\ exitMsg'["A"].kind = "Missing required fields for campaign: "
           /\ {exitMsg'["A"].fields[i] : i \in 1..Len(exitMsg'["A"].fields)}
                = {f \in RequiredSet : ~Truthy(args["A"][f])} ]_vars

C3_Witness ==
    /\ pc["A"] = "exit_error"
    /\ Truthy(args["A"].name)
    /\ Truthy(args["A"].segment)
    /\ exitMsg["A"].fields = <<"trigger", "channel", "template">>
    /\ file = fileAtStart["A"]

\* C4: whenever an invocation ends in a validation error (missing required
\* campaign fields or a bad --next-send date), the state file at exit is
\* identical to what it was before the invocation started.  Stated for a state
\* file that is present and parseable when the invocation starts (for a
\* missing or corrupt file the load has already written the sample).
C4_NoMutationOnValidationError ==
    \A p \in Procs :
        (pc[p] = "exit_error" /\ fileAtStart[p].kind = "json") => file = fileAtStart[p]

C11_LoadNeverRaises ==
    \A p \in Procs : pc[p] # "crashed"

\* The invocation has a document: load_state has returned.
Loaded(p) == pc[p] \notin {"idle", "load", "crashed"}

\* load_state fell back to reset_state().
FellBack(p) == fileAtStart[p].kind \in {"missing", "corrupt"}

\* main() has called reset_state(); main() has called add_campaign().
ResetDone(p) ==
    /\ argv[p].reset_sample
    /\ \/ pc[p] \in {"add", "render", "done"}
       \/ pc[p] = "exit_error" /\ exitMsg[p].fields # <<>>
AddDone(p) == argv[p].add_campaign /\ pc[p] \in {"render", "done"}

B2I(b) == IF b THEN 1 ELSE 0

StartDoc(p) ==
    IF fileAtStart[p].kind = "json" THEN json_load(fileAtStart[p].text) ELSE << >>

\* C13 as stated: once loaded, the document has every list-valued field.
C13_ListFieldsPresent ==
    \A p \in Procs : Loaded(p) => ListKeys \subseteq DOMAIN state[p]

\* C13, amended: once loaded, the document has a list-valued field exactly
\* when the file's document had it, or the sample was installed (by the
\* fallback of load_state or by a reset), or the field is campaigns and a
\* campaign was added; the dashboard shows an empty table for a field the
\* document lacks.
C13_ListFieldsReadWithDefault ==
    \A p \in Procs :
        /\ Loaded(p) =>
              \A k \in ListKeys :
                  k \in DOMAIN state[p]
                      <=> \/ k \in DOMAIN StartDoc(p)
                          \/ FellBack(p)
                          \/ ResetDone(p)
                          \/ k = "campaigns" /\ AddDone(p)
        /\ (pc[p] = "done" /\ shown[p].dashboard) =>
              \A k \in ListKeys \ {"connectors"} :
                  shown[p].rows[k] =
                      IF k \in DOMAIN state[p] THEN state[p][k] ELSE << >>

C13_Witness ==
    \E p \in Procs :
        /\ pc[p] = "done"
        /\ shown[p].dashboard
        /\ AddDone(p)
        /\ "templates" \notin DOMAIN state[p]
        /\ shown[p].rows["templates"] = << >>
        /\ Len(shown[p].rows["campaigns"]) = 1

\* C14: the Connectors table shows the document's connectors when the
\* document has the key, an empty list included; its integrations when it
\* has integrations and no connectors; nothing when it has neither. Showing
\* it changes neither the document nor the file.
C14_ConnectorsFallback ==
    [][\A p \in Procs :
          (pc[p] = "render" /\ pc'[p] = "done")
              => /\ state'[p] = state[p]
                 /\ file' = file
                 /\ shown'[p].dashboard =>
                       shown'[p].connectors =
                           IF "connectors" \in DOMAIN state[p]
                           THEN state[p]["connectors"]
                           ELSE IF "integrations" \in DOMAIN state[p]
                                THEN state[p]["integrations"]
                                ELSE << >>]_vars

C14_Witness ==
    \E p \in Procs :
        /\ pc[p] = "done"
        /\ shown[p].dashboard
        /\ "connectors" \in DOMAIN state[p]
        /\ state[p]["connectors"] = << >>
        /\ state[p]["integrations"] # << >>
        /\ shown[p].connectors = << >>
        /\ file = fileAtStart[p]

\* The document holds the campaign that invocation q adds.
HasCampaignOf(q, doc) ==
    \E i \in 1..Len(campaigns_of(doc)) :
        campaigns_of(doc)[i].name = RaceArgv(q).name

\* C15: of two add-campaign invocations at once, each saves the document
\* it loaded with its own campaign appended, over whatever the file holds:
\* after its save the file has the other's campaign exactly when the other
\* had saved before this one loaded. So both campaigns are in the file when
\* one invocation ran after the other, and one is lost when both loaded
\* before either saved.
C15_LastWriterWins ==
    [][\A p \in Procs :
          /\ (pc[p] = "load" /\ pc'[p] = "validate" /\ file.kind = "json")
                => state'[p] = json_load(file.text)
          /\ (pc[p] = "add" /\ pc'[p] = "render")
                => /\ file' = save_state(state'[p])
                   /\ HasCampaignOf(p, json_load(file'.text))
                   /\ \A q \in Procs \ {p} :
                         HasCampaignOf(q, json_load(file'.text))
                             <=> HasCampaignOf(q, state[p])]_vars

\* A lost update: both have added and ended, and the file has one campaign
\* of the two.
C15_Witness ==
    /\ pc["A"] = "done" /\ pc["B"] = "done"
    /\ nMuts["A"] = 1 /\ nMuts["B"] = 1
    /\ HasCampaignOf("B", json_load(file.text))
    /\ ~HasCampaignOf("A", json_load(file.text))

\* The date n midnights after the first.
RECURSIVE DateAfter(_)
DateAfter(n) == IF n = 0 THEN StartDate ELSE NextDay(DateAfter(n - 1))

\* C16: an invocation given --reset-sample and --add-campaign with valid
\* fields leaves in the file the sample document (of the day of the reset)
\* with the new campaign appended to the sample's campaigns, and nothing of
\* the campaigns the file held before.
C16_ResetThenAdd ==
    [][\A p \in Procs :
          (pc[p] = "add" /\ pc'[p] = "render"
             /\ args[p].reset_sample /\ args[p].add_campaign)
              => \E n \in 0..ticks :
                    file' = save_state(
                        [sample_state(DateAfter(n)) EXCEPT !["campaigns"] =
                            Append(sample_campaigns(DateAfter(n)),
                                   new_campaign(args[p], today))])]_vars

C16_Witness ==
    \E p \in Procs :
        /\ pc[p] = "render"
        /\ argv[p].reset_sample /\ argv[p].add_campaign
        /\ fileAtStart[p] = save_state(user_doc)
        /\ file.kind = "json"
        /\ Len(json_load(file.text)["campaigns"]) = Len(sample_campaigns(today)) + 1
        /\ \A i \in 1..Len(json_load(file.text)["campaigns"]) :
              json_load(file.text)["campaigns"][i].name # "Spring Promo"

(***************************************************************************)
(* The pure functions, each applied to an input drawn from a bounded set.  *)
(***************************************************************************)
RECURSIVE Concat(_)
Concat(parts) == IF parts = <<>> THEN <<>> ELSE Head(parts) \o Concat(Tail(parts))

\* Creative ideas: up to MaxFragments of these pieces, joined.
Fragments ==
    { <<"C", "T", "O">>,
      <<"S", "m", "a", "l", "l", " ", "B", "u", "s", "i", "n", "e", "s", "s">>,
      <<"e", "n", "t", "e", "r", "p", "r", "i", "s", "e">>,
      <<"S", "a", "l", "e", "s">>,
      <<"m", "V">>,
      <<"P", "4">>,
      <<"d", "e", "m", "o">>,
      <<"V", "I", "D", "E", "O">>,
      <<"g", "r", "o", "w", " ", "t", "h", "e", " ", "t", "e", "a", "m">>,
      <<" ">>,
      <<"T", "e", "c", "h">>,
      <<" ", "l", "e", "a", "d">> }

Ideas == { Concat(fs) : fs \in UNION { [1..n -> Fragments] : n \in 0..MaxFragments } }

\* Status words, each in four spellings: as written, upper case, capitalised
\* (str.title() of one word) and with the last letter in upper case.
StatusWords ==
    { <<"r", "u", "n", "n", "i", "n", "g">>,
      <<"s", "c", "h", "e", "d", "u", "l", "e", "d">>,
      <<"r", "e", "a", "d", "y">>,
      <<"p", "a", "u", "s", "e", "d">>,
      <<"c", "o", "n", "n", "e", "c", "t", "e", "d">>,
      <<"h", "e", "a", "l", "t", "h", "y">>,
      <<"d", "e", "g", "r", "a", "d", "e", "d">>,
      <<"m", "a", "i", "n", "t", "e", "n", "a", "n", "c", "e">>,
      <<"p", "e", "n", "d", "i", "n", "g">>,
      <<"o", "f", "f", "l", "i", "n", "e">>,
      <<"f", "a", "i", "l", "e", "d">>,
      <<"u", "n", "k", "n", "o", "w", "n">>,
      <<"a", "r", "c", "h", "i", "v", "e", "d">>,
      <<"q", "u", "e", "u", "e", "d">>,
      <<"r", "u", "n">>,
      <<"r", "e", "a", "d", "y", "i", "n", "g">> }

Capitalised(w) == [i \in 1..Len(w) |-> IF i = 1 THEN UpperChar(w[i]) ELSE w[i]]
LastUpper(w) == [i \in 1..Len(w) |-> IF i = Len(w) THEN UpperChar(w[i]) ELSE w[i]]

StatusInputs ==
    UNION { {w, upper(w), Capitalised(w), LastUpper(w)} : w \in StatusWords }
    \cup { <<>> }

\* --next-send values: year, separator, month, separator, day, tail.
DateInputs ==
    { y \o sep \o m \o sep \o d \o tail :
        y \in { <<"2", "0", "2", "4">>,
               <<"2", "0", "2", "3">>,
               <<"0", "0", "0", "0">>,
               <<"2", "4">> },
        sep \in { <<"-">>, <<"/">>, <<>> },
        m \in { <<"0", "2">>,
               <<"2">>,
               <<"0", "3">>,
               <<"3">>,
               <<"1", "2">>,
               <<"1", "3">>,
               <<"0", "0">> },
        d \in { <<"0", "1">>,
               <<"1">>,
               <<" ", "1">>,
               <<"2", "9">>,
               <<"3", "0">>,
               <<"3", "1">>,
               <<"0", "0">>,
               <<"3", "2">> },
        tail \in { <<>>, <<" ">> } }
    \cup { NoneChars, <<>> }

InitPure(fn, inputs) ==
    /\ call \in { [fn |-> fn, arg |-> a, done |-> FALSE, ret |-> <<>>] : a \in inputs }
    /\ file = Missing
    /\ today = StartDate
    /\ ticks = 0
    /\ runs = 0
    /\ pc = [p \in Procs |-> "idle"]
    /\ argv = [p \in Procs |-> NoArgs]
    /\ args = [p \in Procs |-> NoArgs]
    /\ state = [p \in Procs |-> NoDoc]
    /\ exitMsg = [p \in Procs |-> NoMsg]
    /\ fileAtStart = [p \in Procs |-> Missing]
    /\ lastSaved = [saved |-> FALSE, doc |-> NoDoc]
    /\ nSaves = [p \in Procs |-> 0]
    /\ nLoads = [p \in Procs |-> 0]
    /\ nMuts = [p \in Procs |-> 0]
    /\ shown = [p \in Procs |-> NoShown]

\* auto_plan = generate_auto_plan(creative_idea)
CallPlan ==
    /\ call.fn = "generate_auto_plan"
    /\ ~call.done
    /\ call' = [call EXCEPT !.done = TRUE, !.ret = generate_auto_plan(call.arg, today)]
    /\ UNCHANGED cliVars

\* _status_color(status)
CallStatusColor ==
    /\ call.fn = "_status_color"
    /\ ~call.done
    /\ call' = [call EXCEPT !.done = TRUE, !.ret = _status_color(call.arg)]
    /\ UNCHANGED cliVars

\* validate_next_send(next_send)
CallValidate ==
    /\ call.fn = "validate_next_send"
    /\ ~call.done
    /\ call' = [call EXCEPT !.done = TRUE, !.ret = validate_next_send(call.arg)]
    /\ UNCHANGED cliVars

InitPlan == InitPure("generate_auto_plan", Ideas)
InitStatus == InitPure("_status_color", StatusInputs)
InitDate == InitPure("validate_next_send", DateInputs)

SpecPlan == InitPlan /\ [][CallPlan]_vars
SpecStatus == InitStatus /\ [][CallStatusColor]_vars
SpecDate == InitDate /\ [][CallValidate]_vars

(***************************************************************************)
(* Properties of generate_auto_plan (under SpecPlan).                      *)
(***************************************************************************)
KeywordsOf(rule) ==
    rule_patterns[CHOOSE i \in 1..Len(rule_patterns) : rule_patterns[i].rule = rule].keywords

\* The rule the priority order SMB_CTO, Enterprise, Demo_video gives.
ExpectedRule(idea) ==
    IF AnyKeyword(lower(idea), KeywordsOf("SMB_CTO")) THEN "SMB_CTO"
    ELSE IF AnyKeyword(lower(idea), KeywordsOf("Enterprise")) THEN "Enterprise"
    ELSE IF AnyKeyword(lower(idea), KeywordsOf("Demo_video")) THEN "Demo_video"
    ELSE "Default"

Matched == call.done /\ call.ret.rule_matched # PyStr("Default")
Preset == automation_rules[call.ret.rule_matched.s]

FieldOrder == <<"segment", "cadence", "channel", "ab_tests", "variants", "length", "format">>
OptionalFields == {"ab_tests", "length", "format"}
DefaultedFields ==
    [segment |-> PyStr("General Audience"), cadence |-> PyStr("0-7"),
     channel |-> PyStr("Email"), variants |-> PyInt(1)]

\* The text that introduces a field's line in auto_handled.
TextOf(key) ==
    handled_fields[CHOOSE i \in 1..Len(handled_fields) : handled_fields[i].key = key].text

\* C5: the rule is chosen by fixed priority on the lowercased input:
\* SMB_CTO if one of its keywords occurs, else Enterprise, else Demo_video,
\* whatever the letter case; with no keyword at all the result is the fixed
\* default plan (Default, General Audience, 0-7, Email, 1 variant) whose
\* explanation list is exactly "Segment selection", "Basic scheduling".
C5_RulePriority ==
    call.done =>
        /\ call.ret.rule_matched = PyStr(ExpectedRule(call.arg))
        /\ generate_auto_plan(upper(call.arg), today).rule_matched = call.ret.rule_matched
        /\ ExpectedRule(call.arg) = "Default" =>
              /\ DOMAIN call.ret = {"rule_matched", "segment", "cadence", "channel",
                                    "variants", "auto_handled"}
              /\ call.ret.segment = PyStr("General Audience")
              /\ call.ret.cadence = PyStr("0-7")
              /\ call.ret.channel = PyStr("Email")
              /\ call.ret.variants = PyInt(1)
              /\ Len(call.ret.auto_handled) = 2
              /\ call.ret.auto_handled[1] = Line("Segment selection", PyStr(""), "")
              /\ call.ret.auto_handled[2] = Line("Basic scheduling", PyStr(""), "")

C5_Witness ==
    /\ call.done
    /\ call.arg # lower(call.arg)
    /\ AnyKeyword(lower(call.arg), KeywordsOf("SMB_CTO"))
    /\ AnyKeyword(lower(call.arg), KeywordsOf("Demo_video"))
    /\ call.ret.rule_matched = PyStr("SMB_CTO")

\* C6, as claimed: when a rule matches, the plan contains the rule
\* identifier, segment, cadence, channel and variant count, and contains each
\* of ab_tests, length, format only if the matched preset defines it.
C6_OptionalFieldsOmitted ==
    Matched =>
        /\ {"rule_matched", "segment", "cadence", "channel", "variants"}
              \subseteq DOMAIN call.ret
        /\ \A k \in OptionalFields : k \in DOMAIN call.ret <=> k \in DOMAIN Preset

\* C6, amended: when a rule matches, the plan contains the rule identifier,
\* segment, cadence, channel and variant count (the preset's value, or the
\* default when the preset defines none) and always contains ab_tests,
\* length and format: the preset's value when the preset defines it, None
\* (never zero or empty) when it does not.
C6_OptionalFieldsNull ==
    Matched =>
        /\ DOMAIN call.ret = {"rule_matched", "segment", "cadence", "channel",
                              "variants", "ab_tests", "length", "format",
                              "auto_handled"}
        /\ \A k \in DOMAIN DefaultedFields :
              call.ret[k] = IF k \in DOMAIN Preset THEN Preset[k] ELSE DefaultedFields[k]
        /\ \A k \in OptionalFields :
              call.ret[k] = IF k \in DOMAIN Preset THEN Preset[k] ELSE PyNone

C6_Witness ==
    /\ Matched
    /\ call.ret.rule_matched = PyStr("SMB_CTO")
    /\ "ab_tests" \in DOMAIN call.ret
    /\ call.ret["ab_tests"] = PyNone
    /\ "ab_tests" \notin DOMAIN Preset

\* The texts of the lines of auto_handled, in order.
HandledTexts == [i \in 1..Len(call.ret.auto_handled) |-> call.ret.auto_handled[i].text]

DefinedByPreset(k) == k \in DOMAIN Preset
DefinedOrDefaulted(k) == k \in DOMAIN Preset \/ k \in DOMAIN DefaultedFields

\* C7, as claimed: when a rule matches, auto_handled has one line per plan
\* field that the matched preset defines, in the order segment, cadence,
\* channel, ab_tests, variants, length, format, and no line for a field the
\* preset did not define.
C7_LinesForPresetFields ==
    Matched =>
        HandledTexts = [i \in 1..Len(SelectSeq(FieldOrder, DefinedByPreset)) |->
                           TextOf(SelectSeq(FieldOrder, DefinedByPreset)[i])]

\* C7, amended: when a rule matches, auto_handled has one line per plan field
\* that the plan populates, in the order segment, cadence, channel, ab_tests,
\* variants, length, format: always one for segment, cadence, channel and
\* variants (defaulted when the preset defines none), and one for ab_tests,
\* length, format only when the preset defines it; each line carries the
\* plan's value of its field.
C7_LinesForPopulatedFields ==
    Matched =>
        LET keys == SelectSeq(FieldOrder, DefinedOrDefaulted) IN
          /\ HandledTexts = [i \in 1..Len(keys) |-> TextOf(keys[i])]
          /\ \A i \in 1..Len(keys) : call.ret.auto_handled[i].value = call.ret[keys[i]]

C7_Witness ==
    /\ Matched
    /\ call.ret.rule_matched = PyStr("Demo_video")
    /\ "segment" \notin DOMAIN Preset
    /\ Len(call.ret.auto_handled) = 6
    /\ call.ret.auto_handled[1] = Line("Segment: ", PyStr("General Audience"), "")

(***************************************************************************)
(* Properties of _status_color (under SpecStatus).                         *)
(***************************************************************************)
Positive == { <<"r", "u", "n", "n", "i", "n", "g">>,
              <<"c", "o", "n", "n", "e", "c", "t", "e", "d">>,
              <<"h", "e", "a", "l", "t", "h", "y">> }
Caution == { <<"p", "e", "n", "d", "i", "n", "g">>,
             <<"d", "e", "g", "r", "a", "d", "e", "d">>,
             <<"r", "e", "a", "d", "y">> }
Negative == { <<"p", "a", "u", "s", "e", "d">>,
              <<"o", "f", "f", "l", "i", "n", "e">>,
              <<"f", "a", "i", "l", "e", "d">> }
Scheduled == <<"s", "c", "h", "e", "d", "u", "l", "e", "d">>
Maintenance == <<"m", "a", "i", "n", "t", "e", "n", "a", "n", "c", "e">>

\* C8, as claimed: the mapping is total and case-insensitive; running,
\* connected, healthy share one class; scheduled, pending, degraded, ready
\* share one class; paused, offline, failed share one class; maintenance has
\* its own class; every other string yields the neutral class.
C8_TableClasses ==
    call.done =>
        LET s == lower(call.arg)
            positive == _status_color(<<"r", "u", "n", "n", "i", "n", "g">>)
            caution == _status_color(<<"p", "e", "n", "d", "i", "n", "g">>)
            negative == _status_color(<<"p", "a", "u", "s", "e", "d">>)
            info == _status_color(Maintenance)
            neutral == _status_color(<<"?">>)
        IN /\ Cardinality({positive, caution, negative, info, neutral}) = 5
           /\ s \in Positive => call.ret = positive
           /\ s \in Caution \cup {Scheduled} => call.ret = caution
           /\ s \in Negative => call.ret = negative
           /\ s = Maintenance => call.ret = info
           /\ s \notin Positive \cup Caution \cup Negative \cup {Scheduled, Maintenance}
                 => call.ret = neutral
           /\ _status_color(upper(call.arg)) = call.ret

\* C8, amended: the mapping is total and case-insensitive; running,
\* connected, healthy share one class (green); pending, degraded, ready
\* share one class (yellow); scheduled has a class of its own (cyan); paused,
\* offline, failed share one class (red); maintenance has its own class
\* (magenta); every other string yields the neutral class (white).
C8_ColorClasses ==
    call.done =>
        LET s == lower(call.arg) IN
           /\ s \in Positive => call.ret = "green"
           /\ s \in Caution => call.ret = "yellow"
           /\ s = Scheduled => call.ret = "cyan"
           /\ s \in Negative => call.ret = "red"
           /\ s = Maintenance => call.ret = "magenta"
           /\ s \notin Positive \cup Caution \cup Negative \cup {Scheduled, Maintenance}
                 => call.ret = "white"
           /\ _status_color(upper(call.arg)) = call.ret
           /\ _status_color(lower(call.arg)) = call.ret

C8_Witness ==
    /\ call.done
    /\ call.arg # lower(call.arg)
    /\ lower(call.arg) = Scheduled
    /\ call.ret = "cyan"

(***************************************************************************)
(* Properties of validate_next_send (under SpecDate).                      *)
(***************************************************************************)
\* A real calendar date written YYYY-MM-DD.
IsoCalendarDate(s) ==
    /\ Len(s) = 10
    /\ \A i \in {1, 2, 3, 4, 6, 7, 9, 10} : IsDigit(s[i])
    /\ s[5] = "-"
    /\ s[8] = "-"
    /\ LET y == ToInt(SubSeq(s, 1, 4))
           m == ToInt(SubSeq(s, 6, 7))
           d == ToInt(SubSeq(s, 9, 10))
       IN y >= 1 /\ m \in 1..12 /\ d \in 1..DaysInMonth(y, m)

\* C9: a supplied --next-send is accepted exactly when it is a real
\* calendar date written YYYY-MM-DD, and is then returned unchanged; an
\* impossible date and a string in another form are rejected; an omitted
\* value is accepted as not supplied.
C9_IsoDatesOnly ==
    call.done =>
        IF TruthyChars(call.arg)
        THEN /\ call.ret.ok <=> IsoCalendarDate(call.arg)
             /\ call.ret.ok => call.ret.value = call.arg
        ELSE call.ret.ok /\ call.ret.value = NoneChars

====
